---------------------------- MODULE Spec2Model ----------------------------
(***************************************************************************)
(* Manipulator_Robot (main.py): keyboard driven six-joint controller.      *)
(* The model follows the main loop of main.py: one iteration reads the     *)
(* clock, drains the event batch (KEYDOWN / KEYUP / QUIT), runs the key    *)
(* repeat loop over the held keys, and smooths motor_angles toward         *)
(* motor_targets.  Every applied adjustment calls send_command().          *)
(***************************************************************************)
EXTENDS Integers, Sequences, FiniteSets, TLC

(***************************************************************************)
(* Bounds of the model                                                     *)
(***************************************************************************)
\* last clock value (ms) at which a loop iteration may start
MaxTime == 118
\* input events (key-down, key-up, quit) delivered over the whole run
MaxInputs == 2

(***************************************************************************)
(* Program constants                                                       *)
(***************************************************************************)
KEY_REPEAT_DELAY == 50
KEY_REPEAT_INTERVAL == 50
FAST_STEP_SIZE == 3
\* clock.tick(60): a frame is never shorter than 1000 \div 60 ms
FrameMs == 16
\* motor_angles are Python floats; the model keeps them in fixed point,
\* Scale units per motor step
Scale == 1000

Joints == 0..5

motor_ranges ==
  [i \in Joints |->
     CASE i = 0 -> <<0, 1023>>
       [] i = 1 -> <<512, 634>>
       [] i = 2 -> <<104, 924>>
       [] i = 3 -> <<512, 956>>
       [] i = 4 -> <<0, 1023>>
       [] i = 5 -> <<430, 890>>]

InitTargets ==
  [i \in Joints |->
     CASE i = 0 -> 512
       [] i = 1 -> 512
       [] i = 2 -> 512
       [] i = 3 -> 956
       [] i = 4 -> 800
       [] i = 5 -> 430]

InitAngles == [i \in Joints |-> InitTargets[i] * Scale]

K_ESCAPE == "ESC"
\* a key that is neither mapped nor the exit key
K_x == "x"

MappedKeys == {"q", "a", "w", "s", "e", "d", "r", "f", "t", "g", "y", "h"}

key_mapping ==
  [k \in MappedKeys |->
     CASE k = "q" -> <<0, "increase">>
       [] k = "a" -> <<0, "decrease">>
       [] k = "w" -> <<1, "increase">>
       [] k = "s" -> <<1, "decrease">>
       [] k = "e" -> <<2, "increase">>
       [] k = "d" -> <<2, "decrease">>
       [] k = "r" -> <<3, "increase">>
       [] k = "f" -> <<3, "decrease">>
       [] k = "t" -> <<4, "increase">>
       [] k = "g" -> <<4, "decrease">>
       [] k = "y" -> <<5, "increase">>
       [] k = "h" -> <<5, "decrease">>]

\* the keys the operator touches: both directions of joint 1 (which starts at
\* its minimum), the increase key of joint 3 (which starts at its maximum), a
\* key without a mapping and the exit key
InputKeys == {"w", "s", "r", K_x, K_ESCAPE}

\* adjustments of a target in a run of the smoothing alone
MaxAdjust == 2

\* the millisecond clock advances by 16 or 17 per frame at 60 frames a second
Deltas == {FrameMs, FrameMs + 1}

VARIABLES
  motor_targets,      \* [Joints -> Int]
  motor_angles,       \* [Joints -> Int], fixed point (Scale)
  keys_pressed,       \* held keys, in dict insertion order
  last_command_time,  \* function: key -> next fire time
  running,
  current_time,
  pc,                 \* "top" | "events" | "repeat" | "done" | "crashed"
  repeat_keys,        \* list(keys_pressed.keys()) of the running repeat loop
  idx,                \* position of the repeat loop in repeat_keys
  arduino,            \* TRUE iff serial.Serial(...) succeeded (name is bound)
  ranges,             \* the motor_ranges list the program runs with
  nInputs,            \* events handled since the start
  last_op,            \* history: the step just taken
  intents,            \* history: adjustments applied in this iteration
  sends,              \* history: send_command() calls of this iteration
  fires,              \* history: key -> times of its intents since key-down
  dueReleased         \* history: keys released in this iteration while due

vars == <<motor_targets, motor_angles, keys_pressed, last_command_time, running,
          current_time, pc, repeat_keys, idx, arduino, ranges, nInputs,
          last_op, intents, sends, fires, dueReleased>>

(***************************************************************************)
(* Helpers                                                                 *)
(***************************************************************************)
Min(a, b) == IF a <= b THEN a ELSE b
Max(a, b) == IF a >= b THEN a ELSE b
Abs(a) == IF a < 0 THEN -a ELSE a

InSeq(x, s) == \E i \in 1..Len(s) : s[i] = x

\* del d[k] on an insertion ordered dict
Remove(s, x) == SelectSeq(s, LAMBDA y : y # x)

\* d[k] = v
Put(f, k, v) == [x \in (DOMAIN f) \cup {k} |-> IF x = k THEN v ELSE f[x]]

\* del d[k]
Del(f, k) == [x \in (DOMAIN f) \ {k} |-> f[x]]

\* d.get(k, default)
Get(f, k, default) == IF k \in DOMAIN f THEN f[k] ELSE default

Op(name, key) == [op |-> name, key |-> key]


(***************************************************************************)
(* JointModel: update_robot_action's target adjustment, update_motor_angles *)
(***************************************************************************)
ApplyAdjustmentUnclamped(tg, motor_index, direction, step_size) ==
  IF direction = "increase"
    THEN [tg EXCEPT ![motor_index] = tg[motor_index] + step_size]
    ELSE IF direction = "decrease"
      THEN [tg EXCEPT ![motor_index] = tg[motor_index] - step_size]
      ELSE tg

ApplyAdjustmentNextJoint(tg, motor_index, direction, step_size) ==
  LET other == (motor_index + 1) % 6
  IN IF direction = "increase"
       THEN [tg EXCEPT ![other] = Min(ranges[other][2], tg[other] + step_size)]
       ELSE [tg EXCEPT ![other] = Max(ranges[other][1], tg[other] - step_size)]

\* lines 239-249: the clamped change of motor_targets[motor_index]
ApplyAdjustment(tg, motor_index, direction, step_size) ==
  LET min_val == ranges[motor_index][1]
      max_val == ranges[motor_index][2]
  IN IF direction = "increase"
       THEN [tg EXCEPT ![motor_index] = Min(max_val, tg[motor_index] + step_size)]
       ELSE IF direction = "decrease"
         THEN [tg EXCEPT ![motor_index] = Max(min_val, tg[motor_index] - step_size)]
         ELSE tg

\* diff * 0.1 in fixed point, rounded to the nearest unit
Tenth(diff) ==
  IF diff >= 0 THEN (diff + 5) \div 10 ELSE -((5 - diff) \div 10)

SmoothOneNoSnap(target, angle) == angle + Tenth(target * Scale - angle)

SmoothOneOvershoot(target, angle) ==
  LET diff == target * Scale - angle
  IN IF 2 * Abs(diff) > Scale
       THEN angle + 2 * diff
       ELSE target * Scale

\* one joint of update_motor_angles: target in motor steps, angle in fixed point
SmoothOne(target, angle) ==
  LET diff == target * Scale - angle
  IN IF 2 * Abs(diff) > Scale
       THEN angle + Tenth(diff)
       ELSE target * Scale

SmoothAll(tg, ang) == [i \in Joints |-> SmoothOne(tg[i], ang[i])]

(***************************************************************************)
(* CommandCodec: the f-string of send_command                              *)
(***************************************************************************)
Digit(d) ==
  CASE d = 0 -> "0" [] d = 1 -> "1" [] d = 2 -> "2" [] d = 3 -> "3"
    [] d = 4 -> "4" [] d = 5 -> "5" [] d = 6 -> "6" [] d = 7 -> "7"
    [] d = 8 -> "8" [] d = 9 -> "9"

RECURSIVE NatStr(_)
NatStr(n) ==
  IF n < 10 THEN <<Digit(n)>> ELSE Append(NatStr(n \div 10), Digit(n % 10))

\* f"{n}" of a Python int, as a sequence of characters
IntStr(n) == IF n < 0 THEN <<"-">> \o NatStr(-n) ELSE NatStr(n)

\* int(x) of a fixed point value: truncation toward zero
IntOfAngle(a) == IF a >= 0 THEN a \div Scale ELSE -((-a) \div Scale)

\* int(x) of a motor target; the targets are Python ints, which int() returns as is
IntOfTarget(t) == t

FormatCommand(vals) ==
  IntStr(vals[0]) \o <<",">> \o IntStr(vals[1]) \o <<",">> \o
  IntStr(vals[2]) \o <<",">> \o IntStr(vals[3]) \o <<",">> \o
  IntStr(vals[4]) \o <<",">> \o IntStr(vals[5]) \o <<"*">>

CommandFromAngles(tg, ang) ==
  FormatCommand([i \in Joints |-> IntOfAngle(ang[i])])

\* line 220: the command is built from motor_targets
Command(tg, ang) ==
  FormatCommand([i \in Joints |-> IntOfTarget(tg[i])])

(***************************************************************************)
(* TransmissionChannel: the outcomes of one send_command() call            *)
(***************************************************************************)
\* NameError     arduino is unbound (the port was never opened), line 221
\* WriteError    arduino.write raised, line 221
\* ReceiveError  the write went out; in_waiting, readline or decode raised
\* Sent          the write went out; no reply was waiting, or one was read
SendOutcomes(ard) ==
  IF ard THEN {"WriteError", "ReceiveError", "Sent"} ELSE {"NameError"}

Transmitted(o) == o \in {"ReceiveError", "Sent"}

ReceiveAlways(o) == TRUE

\* line 225: arduino.in_waiting is read only after arduino.write returned
ReceiveAttempted(o) == o \in {"ReceiveError", "Sent"}

Raised(o) == o \in {"NameError", "WriteError", "ReceiveError"}

CaughtSerialOnly(o) == o \in {"WriteError"}

CaughtSendOnly(o) == o \in {"NameError", "WriteError"}

\* line 229: except Exception catches every one of them
Caught(o) == o \in {"NameError", "WriteError", "ReceiveError"}

Propagates(o) == Raised(o) /\ ~Caught(o)

(***************************************************************************)
(* update_robot_action with a motor_index: adjust, then send_command()     *)
(***************************************************************************)
CommandTargetsBefore(old, new) == old

\* lines 244/248 run before line 252: the command is built from the adjusted targets
CommandTargets(old, new) == new

SendsOnChange(old, new) == old # new

\* line 252: send_command() is called for every adjustment, changed or clamped
SendsCommand(old, new) == TRUE

\* the effect of update_robot_action(..., motor_index, direction, FAST_STEP_SIZE)
\* for the key's mapping, with outcome o of its send_command() call
IntentStep(key, kind, o) ==
  LET motor_index == key_mapping[key][1]
      direction == key_mapping[key][2]
      new == ApplyAdjustment(motor_targets, motor_index, direction, FAST_STEP_SIZE)
  IN /\ motor_targets' = new
     /\ intents' = Append(intents,
                     [key |-> key, motor_index |-> motor_index,
                      direction |-> direction, kind |-> kind,
                      before |-> motor_targets, after |-> new])
     /\ sends' = IF SendsCommand(motor_targets, new)
                   THEN Append(sends,
                          [outcome |-> o,
                           receive |-> ReceiveAttempted(o),
                           command |-> Command(CommandTargets(motor_targets, new),
                                               motor_angles),
                           nint |-> Len(intents) + 1])
                   ELSE sends

(***************************************************************************)
(* The main loop                                                           *)
(***************************************************************************)
Init ==
  /\ motor_targets = InitTargets
  /\ motor_angles = InitAngles
  /\ keys_pressed = <<>>
  /\ last_command_time = <<>>
  /\ running = TRUE
  /\ current_time = 0
  /\ pc = "top"
  /\ repeat_keys = <<>>
  /\ idx = 1
  /\ arduino \in BOOLEAN
  /\ ranges = motor_ranges
  /\ nInputs = 0
  /\ last_op = Op("init", "")
  /\ intents = <<>>
  /\ sends = <<>>
  /\ fires = <<>>
  /\ dueReleased = {}

LoopConditionAlways(r) == TRUE

\* line 283: while running
LoopCondition(r) == r

\* line 283-284: while running: current_time = pygame.time.get_ticks()
GetTicks ==
  /\ pc = "top"
  /\ LoopCondition(running)
  /\ \E d \in Deltas :
       /\ current_time + d <= MaxTime
       /\ current_time' = current_time + d
  /\ pc' = "events"
  /\ intents' = <<>>
  /\ sends' = <<>>
  /\ dueReleased' = {}
  /\ last_op' = Op("get_ticks", "")
  /\ UNCHANGED <<ranges, nInputs, motor_targets, motor_angles, keys_pressed, last_command_time,
                 running, repeat_keys, idx, arduino, fires>>

\* line 288-289: a QUIT event
Quit ==
  /\ pc = "events"
  /\ nInputs < MaxInputs
  /\ nInputs' = nInputs + 1
  /\ running' = FALSE
  /\ last_op' = Op("QUIT", "")
  /\ UNCHANGED <<ranges, dueReleased, motor_targets, motor_angles, keys_pressed, last_command_time,
                 current_time, pc, repeat_keys, idx, arduino, intents, sends,
                 fires>>

\* line 292-293: KEYDOWN of the exit key
KeyDownEscape ==
  /\ pc = "events"
  /\ nInputs < MaxInputs
  /\ nInputs' = nInputs + 1
  /\ running' = FALSE
  /\ last_op' = Op("KEYDOWN", K_ESCAPE)
  /\ UNCHANGED <<ranges, dueReleased, motor_targets, motor_angles, keys_pressed, last_command_time,
                 current_time, pc, repeat_keys, idx, arduino, intents, sends,
                 fires>>

IsMappedKey(k, kp) == k \in DOMAIN key_mapping

\* line 294: event.key in key_mapping and event.key not in keys_pressed
IsNewMappedKey(k, kp) == k \in DOMAIN key_mapping /\ ~InSeq(k, kp)

\* line 294-304: KEYDOWN of a mapped key that is not held
KeyDownMapped(k) ==
  /\ pc = "events"
  /\ nInputs < MaxInputs
  /\ k # K_ESCAPE
  /\ IsNewMappedKey(k, keys_pressed)
  /\ nInputs' = nInputs + 1
  /\ keys_pressed' = IF InSeq(k, keys_pressed)
                       THEN keys_pressed ELSE Append(keys_pressed, k)
  /\ \E o \in SendOutcomes(arduino) :
       /\ IntentStep(k, "down", o)
       /\ IF Propagates(o)
            THEN /\ pc' = "crashed"
                 /\ UNCHANGED last_command_time
            ELSE /\ pc' = pc
                 /\ last_command_time' =
                      Put(last_command_time, k, current_time + KEY_REPEAT_DELAY)
  /\ fires' = Put(fires, k, <<current_time>>)
  /\ last_op' = Op("KEYDOWN", k)
  /\ UNCHANGED <<ranges, dueReleased, motor_angles, running, current_time, repeat_keys, idx, arduino>>

\* line 291-304: KEYDOWN of any other key, or of a key that is already held
KeyDownIgnored(k) ==
  /\ pc = "events"
  /\ nInputs < MaxInputs
  /\ k # K_ESCAPE
  /\ ~IsNewMappedKey(k, keys_pressed)
  /\ nInputs' = nInputs + 1
  /\ last_op' = Op("KEYDOWN", k)
  /\ UNCHANGED <<ranges, dueReleased, motor_targets, motor_angles, keys_pressed, last_command_time,
                 running, current_time, pc, repeat_keys, idx, arduino, intents,
                 sends, fires>>

KeyUpPressedKept(kp, k) == kp

\* line 308-309: if event.key in keys_pressed: del keys_pressed[event.key]
KeyUpPressed(kp, k) == IF InSeq(k, kp) THEN Remove(kp, k) ELSE kp

KeyUpTimesKept(lct, k) == lct

\* line 310-311: if event.key in last_command_time: del last_command_time[event.key]
KeyUpTimes(lct, k) == IF k \in DOMAIN lct THEN Del(lct, k) ELSE lct

\* line 306-311: KEYUP
KeyUp(k) ==
  /\ pc = "events"
  /\ nInputs < MaxInputs
  /\ nInputs' = nInputs + 1
  /\ keys_pressed' = KeyUpPressed(keys_pressed, k)
  /\ last_command_time' = KeyUpTimes(last_command_time, k)
  /\ fires' = IF k \in DOMAIN fires THEN Del(fires, k) ELSE fires
  /\ dueReleased' =
       IF k \in DOMAIN last_command_time /\ current_time >= last_command_time[k]
         THEN dueReleased \cup {k} ELSE dueReleased
  /\ last_op' = Op("KEYUP", k)
  /\ UNCHANGED <<ranges, motor_targets, motor_angles, running, current_time, pc,
                 repeat_keys, idx, arduino, intents, sends>>

\* line 314: the event batch is drained; list(keys_pressed.keys())
EndEvents ==
  /\ pc = "events"
  /\ pc' = "repeat"
  /\ repeat_keys' = keys_pressed
  /\ idx' = 1
  /\ last_op' = Op("end_events", "")
  /\ UNCHANGED <<ranges, dueReleased, nInputs, motor_targets, motor_angles, keys_pressed, last_command_time,
                 running, current_time, arduino, intents, sends, fires>>

RepeatDueStrict(key) ==
  key \in DOMAIN key_mapping /\ current_time > Get(last_command_time, key, 0)

\* line 315-317: the key of this loop turn is mapped and its time has come
RepeatDue(key) ==
  key \in DOMAIN key_mapping /\ current_time >= Get(last_command_time, key, 0)

RepeatTimeNoReschedule(lct, key, now) == lct

RepeatTimeShared(lct, key, now) ==
  [x \in (DOMAIN lct) \cup {key} |-> now + KEY_REPEAT_INTERVAL]

\* line 324: last_command_time[key] = current_time + KEY_REPEAT_INTERVAL
RepeatTime(lct, key, now) == Put(lct, key, now + KEY_REPEAT_INTERVAL)

\* line 314-324: one turn of the repeat loop that fires
RepeatFire ==
  /\ pc = "repeat"
  /\ idx <= Len(repeat_keys)
  /\ RepeatDue(repeat_keys[idx])
  /\ LET key == repeat_keys[idx]
     IN /\ \E o \in SendOutcomes(arduino) :
             /\ IntentStep(key, "repeat", o)
             /\ IF Propagates(o)
                  THEN /\ pc' = "crashed"
                       /\ UNCHANGED last_command_time
                  ELSE /\ pc' = pc
                       /\ last_command_time' =
                            RepeatTime(last_command_time, key, current_time)
        /\ fires' = Put(fires, key, Append(Get(fires, key, <<>>), current_time))
        /\ last_op' = Op("repeat_fire", key)
  /\ idx' = idx + 1
  /\ UNCHANGED <<ranges, dueReleased, nInputs, motor_angles, keys_pressed, running, current_time, repeat_keys,
                 arduino>>

\* line 314-317: one turn of the repeat loop that does not fire
RepeatSkip ==
  /\ pc = "repeat"
  /\ idx <= Len(repeat_keys)
  /\ ~RepeatDue(repeat_keys[idx])
  /\ idx' = idx + 1
  /\ last_op' = Op("repeat_skip", repeat_keys[idx])
  /\ UNCHANGED <<ranges, dueReleased, nInputs, motor_targets, motor_angles, keys_pressed, last_command_time,
                 running, current_time, pc, repeat_keys, arduino,
                 intents, sends, fires>>

\* line 327-358: update_motor_angles(), drawing, clock.tick(60)
UpdateMotorAngles ==
  /\ pc = "repeat"
  /\ idx > Len(repeat_keys)
  /\ motor_angles' = SmoothAll(motor_targets, motor_angles)
  /\ pc' = "top"
  /\ last_op' = Op("update_motor_angles", "")
  /\ UNCHANGED <<ranges, dueReleased, nInputs, motor_targets, keys_pressed, last_command_time, running,
                 current_time, repeat_keys, idx, arduino, intents,
                 sends, fires>>

SendsWithoutMotor(motor_index) == TRUE

\* line 238, 252: send_command() is called only under "motor_index is not None"
SendsForMotor(motor_index) == motor_index # "None"

\* line 361-371: update_robot_action("System Shutdown", None, None), close, exit
Shutdown ==
  /\ pc = "top"
  /\ ~running
  /\ pc' = "done"
  /\ \E o \in SendOutcomes(arduino) :
       sends' = IF SendsForMotor("None")
                  THEN Append(sends,
                         [outcome |-> o,
                          receive |-> ReceiveAttempted(o),
                          command |-> Command(motor_targets, motor_angles),
                          nint |-> 0])
                  ELSE sends
  /\ last_op' = Op("shutdown", "")
  /\ UNCHANGED <<ranges, dueReleased, nInputs, motor_targets, motor_angles, keys_pressed, last_command_time,
                 running, current_time, repeat_keys, idx, arduino,
                 intents, fires>>

Next ==
  \/ GetTicks
  \/ Quit
  \/ KeyDownEscape
  \/ \E k \in InputKeys : KeyDownMapped(k)
  \/ \E k \in InputKeys : KeyDownIgnored(k)
  \/ \E k \in InputKeys : KeyUp(k)
  \/ EndEvents
  \/ RepeatFire
  \/ RepeatSkip
  \/ UpdateMotorAngles
  \/ Shutdown

Spec == Init /\ [][Next]_vars

TypeOK ==
  /\ motor_targets \in [Joints -> Int]
  /\ motor_angles \in [Joints -> Int]
  /\ running \in BOOLEAN
  /\ pc \in {"top", "events", "repeat", "done", "crashed"}
  /\ arduino \in BOOLEAN
  /\ nInputs \in 0..MaxInputs
  /\ current_time \in 0..MaxTime

(***************************************************************************)
(* The program started with a malformed motor_ranges list                  *)
(***************************************************************************)
\* motor_ranges with the two numbers of joint 1 exchanged: min > max
MalformedRanges ==
  [motor_ranges EXCEPT ![1] = <<motor_ranges[1][2], motor_ranges[1][1]>>]

\* lines 15-39 with that list: no statement between line 15 and the loop at
\* line 283 reads motor_ranges, so the start is the same in every other respect
ConfigInit ==
  /\ motor_targets = InitTargets
  /\ motor_angles = InitAngles
  /\ keys_pressed = <<>>
  /\ last_command_time = <<>>
  /\ running = TRUE
  /\ current_time = 0
  /\ pc = "top"
  /\ repeat_keys = <<>>
  /\ idx = 1
  /\ arduino = TRUE
  /\ ranges = MalformedRanges
  /\ nInputs = 0
  /\ last_op = Op("init", "")
  /\ intents = <<>>
  /\ sends = <<>>
  /\ fires = <<>>
  /\ dueReleased = {}

SpecConfig == ConfigInit /\ [][Next]_vars

(***************************************************************************)
(* The smoothing alone: targets adjusted now and then, one                 *)
(* update_motor_angles() per tick, for as many ticks as it takes           *)
(***************************************************************************)
\* both directions of joint 0, which starts in the middle of its range
SmoothKeys == {"q", "a"}

SmoothInit == Init /\ arduino

\* lines 239-249 for the key's joint and direction
SmoothAdjust(k) ==
  /\ nInputs < MaxAdjust
  /\ nInputs' = nInputs + 1
  /\ motor_targets' = ApplyAdjustment(motor_targets, key_mapping[k][1],
                                      key_mapping[k][2], FAST_STEP_SIZE)
  /\ last_op' = Op("KEYDOWN", k)
  /\ UNCHANGED <<ranges, motor_angles, keys_pressed, last_command_time, running,
                 current_time, pc, repeat_keys, idx, arduino, intents, sends,
                 fires, dueReleased>>

\* line 327: update_motor_angles()
SmoothTick ==
  /\ motor_angles' = SmoothAll(motor_targets, motor_angles)
  /\ last_op' = Op("update_motor_angles", "")
  /\ UNCHANGED <<ranges, nInputs, motor_targets, keys_pressed, last_command_time,
                 running, current_time, pc, repeat_keys, idx, arduino, intents,
                 sends, fires, dueReleased>>

SmoothNext ==
  \/ \E k \in SmoothKeys : SmoothAdjust(k)
  \/ SmoothTick

\* the loop runs update_motor_angles() once in every iteration
SpecSmooth == SmoothInit /\ [][SmoothNext]_vars /\ WF_vars(SmoothTick)

(***************************************************************************)
(* Keys held for good: the loop without KEYUP, QUIT and the exit key       *)
(***************************************************************************)
\* the increase keys of joint 1 and of joint 3; their decrease keys stay up
HoldKeys == {"w", "r"}

\* joint 1 after W has been used to bring it within two steps of its maximum
\* and the current position has settled; joint 3 starts at its maximum
HoldTargets ==
  [InitTargets EXCEPT ![1] = motor_ranges[1][2] - 2 * FAST_STEP_SIZE + 1]

HoldInit ==
  /\ motor_targets = HoldTargets
  /\ motor_angles = [i \in Joints |-> HoldTargets[i] * Scale]
  /\ keys_pressed = <<>>
  /\ last_command_time = <<>>
  /\ running = TRUE
  /\ current_time = 0
  /\ pc = "top"
  /\ repeat_keys = <<>>
  /\ idx = 1
  /\ arduino \in BOOLEAN
  /\ ranges = motor_ranges
  /\ nInputs = 0
  /\ last_op = Op("init", "")
  /\ intents = <<>>
  /\ sends = <<>>
  /\ fires = <<>>
  /\ dueReleased = {}

HoldNext ==
  \/ GetTicks
  \/ \E k \in HoldKeys : KeyDownMapped(k)
  \/ EndEvents
  \/ RepeatFire
  \/ RepeatSkip
  \/ UpdateMotorAngles

\* the loop keeps iterating: every step of an iteration that can be taken is taken
SpecHold ==
  /\ HoldInit
  /\ [][HoldNext]_vars
  /\ WF_vars(GetTicks)
  /\ WF_vars(EndEvents)
  /\ WF_vars(RepeatFire)
  /\ WF_vars(RepeatSkip)
  /\ WF_vars(UpdateMotorAngles)

(***************************************************************************)
(* Reading a command back: the six fields of a frame                       *)
(***************************************************************************)
Digits == {"0", "1", "2", "3", "4", "5", "6", "7", "8", "9"}
Separators == {",", "*"}
FrameChars == Digits \cup Separators

DigitVal(ch) ==
  CASE ch = "0" -> 0 [] ch = "1" -> 1 [] ch = "2" -> 2 [] ch = "3" -> 3
    [] ch = "4" -> 4 [] ch = "5" -> 5 [] ch = "6" -> 6 [] ch = "7" -> 7
    [] ch = "8" -> 8 [] ch = "9" -> 9 [] OTHER -> 0

\* one pass over the characters: a separator closes the field read so far
RECURSIVE ParseFields(_, _, _, _)
ParseFields(c, i, cur, acc) ==
  IF i > Len(c)
    THEN acc
    ELSE IF c[i] \in Separators
      THEN ParseFields(c, i + 1, 0, Append(acc, cur))
      ELSE ParseFields(c, i + 1, cur * 10 + DigitVal(c[i]), acc)

\* six non-empty decimal fields, five commas, one "*" and that one last
WellFormedFrame(c) ==
  /\ Len(c) >= 2
  /\ \A i \in 1..Len(c) : c[i] \in FrameChars
  /\ \A i \in 1..Len(c) : c[i] = "*" <=> i = Len(c)
  /\ Cardinality({i \in 1..Len(c) : c[i] = ","}) = 5
  /\ c[1] \in Digits
  /\ \A i \in 2..Len(c) : c[i] \in Separators => c[i - 1] \in Digits

FrameFields(c) ==
  LET f == ParseFields(c, 1, 0, <<>>)
  IN [i \in Joints |-> f[i + 1]]

Held == {keys_pressed[i] : i \in 1..Len(keys_pressed)}

SentFrames == {i \in 1..Len(sends) : Transmitted(sends[i].outcome)}

(***************************************************************************)
(* Claims                                                                  *)
(***************************************************************************)

\* C1: for every joint, the target stays within its inclusive range
\* [min, max] in every reachable state.
C1_TargetsInRange ==
  \A i \in Joints :
    /\ motor_ranges[i][1] <= motor_targets[i]
    /\ motor_targets[i] <= motor_ranges[i][2]

Clamped(it) ==
  ApplyAdjustmentUnclamped(it.before, it.motor_index, it.direction,
                           FAST_STEP_SIZE) # it.after

\* an increase was cut at a maximum and a decrease at a minimum
C1_Witness ==
  /\ \E i \in 1..Len(intents) :
       intents[i].direction = "increase" /\ Clamped(intents[i])
  /\ \E i \in 1..Len(intents) :
       intents[i].direction = "decrease" /\ Clamped(intents[i])

\* C2 as stated: at most one command frame is transmitted per loop iteration.
C2_AtMostOneFramePerTick == Cardinality(SentFrames) <= 1

\* C2 amended: send_command() is called once for every applied intent, so an
\* iteration that applies n intents builds n frames, one after each intent.
C2_OneSendPerIntent ==
  /\ Len(sends) = Len(intents)
  /\ \A i \in 1..Len(sends) : sends[i].nint = i

\* two frames went out in one iteration, one of them for a clamped intent
C2_Witness ==
  /\ Cardinality(SentFrames) >= 2
  /\ \E i \in 1..Len(intents) : Clamped(intents[i])

\* C3: the key-down of a mapped key that was not held, in the iteration of
\* time T, gives exactly one intent in that iteration; while the key stays
\* held its next intent comes at the first iteration of time >= T +
\* KEY_REPEAT_DELAY and at none before.
C3_FirstRepeatAfterDelay ==
  \A k \in DOMAIN fires :
    LET f == fires[k]
    IN /\ Len(f) >= 1
       /\ (f[1] = current_time => Len(f) = 1)
       /\ (Len(f) >= 2 => f[2] >= f[1] + KEY_REPEAT_DELAY)
       /\ (pc = "top" /\ Len(f) = 1 => current_time < f[1] + KEY_REPEAT_DELAY)

\* a held key fired its first repeat exactly KEY_REPEAT_DELAY after the key-down
C3_Witness ==
  \E k \in DOMAIN fires :
    /\ Len(fires[k]) = 2
    /\ fires[k][2] = fires[k][1] + KEY_REPEAT_DELAY
    /\ pc = "top"

\* C4: while a key stays held, two consecutive intents of it are at least
\* KEY_REPEAT_INTERVAL apart; a repeat fires in every iteration with
\* now >= next fire time, and the next fire time is then now + KEY_REPEAT_INTERVAL.
C4_RepeatSpacing ==
  \A k \in DOMAIN fires :
    LET f == fires[k]
    IN /\ \A i \in 1..(Len(f) - 1) : f[i + 1] >= f[i] + KEY_REPEAT_INTERVAL
       /\ (pc = "top" =>
             k \in DOMAIN last_command_time /\ current_time < last_command_time[k])
       /\ (Len(f) >= 2 =>
             /\ k \in DOMAIN last_command_time
             /\ last_command_time[k] = f[Len(f)] + KEY_REPEAT_INTERVAL)

\* a held key fired two repeats
C4_Witness == \E k \in DOMAIN fires : Len(fires[k]) >= 3

\* C5: a key-up removes the key's held entry and its fire time whatever the
\* time, and no intent is emitted for the key from then to its next key-down,
\* also when the repeat was due in the iteration of the key-up.
C5_KeyUpStopsIntents ==
  /\ (last_op.op = "KEYUP" =>
        last_op.key \notin Held /\ last_op.key \notin DOMAIN last_command_time)
  /\ DOMAIN last_command_time \subseteq Held
  /\ DOMAIN fires = Held
  /\ \A i \in 1..Len(intents) :
       intents[i].kind = "repeat" =>
         intents[i].key \in Held /\ intents[i].key \notin dueReleased
  /\ \A k \in dueReleased \ Held :
       \A i \in 1..Len(intents) : intents[i].key # k

\* an iteration ended in which a key was released while its repeat was due
C5_Witness ==
  /\ pc = "top"
  /\ \E k \in dueReleased : k \notin Held

\* C6: a key-down of a key that is already held, and a key-down or key-up of
\* a key that is neither mapped nor the exit key, change nothing.
C6_IgnoredEventsChangeNothing ==
  [][(/\ nInputs' = nInputs + 1
      /\ \/ last_op'.op = "KEYDOWN" /\ last_op'.key \in Held
         \/ /\ last_op'.op \in {"KEYDOWN", "KEYUP"}
            /\ last_op'.key \notin MappedKeys \cup {K_ESCAPE})
     => UNCHANGED <<motor_targets, motor_angles, keys_pressed, last_command_time,
                    running, current_time, pc, intents, sends, fires>>]_vars

\* a key held since an earlier iteration got another key-down
C6_Witness ==
  /\ last_op.op = "KEYDOWN"
  /\ last_op.key \in Held
  /\ fires[last_op.key][1] < current_time
  /\ intents = <<>>

C8_FramesCarryFinalTargets ==
  pc = "top" =>
    \A i \in SentFrames :
      /\ WellFormedFrame(sends[i].command)
      /\ FrameFields(sends[i].command) = motor_targets

\* C8 amended: every frame carries the targets as they stand right after the
\* intent that triggered it, and the frame built for the last intent of an
\* iteration carries the iteration's final targets.
C8_FrameFollowsItsIntent ==
  /\ [][\A i \in (Len(sends) + 1)..Len(sends') :
          /\ sends'[i].nint = Len(intents')
          /\ FrameFields(sends'[i].command) = intents'[sends'[i].nint].after]_vars
  /\ [](sends # <<>> =>
          /\ sends[Len(sends)].nint = Len(intents)
          /\ intents[Len(intents)].after = motor_targets)

\* an iteration ended with two transmitted frames that differ
C8_Witness ==
  /\ pc = "top"
  /\ \E i, j \in SentFrames : sends[i].command # sends[j].command

\* C9: every transmitted frame is six decimal integer fields, the targets of
\* joints 0..5 in order as of the encoding, then one "*" and nothing else;
\* the values are targets, not the interpolated current positions.
C9_FrameFormat ==
  [][\A i \in (Len(sends) + 1)..Len(sends') :
       Transmitted(sends'[i].outcome) =>
         /\ WellFormedFrame(sends'[i].command)
         /\ FrameFields(sends'[i].command) = motor_targets']_vars

\* a frame went out while a joint's current position had not reached its target
C9_Witness ==
  \E i \in SentFrames :
    \E j \in Joints :
      /\ IntOfAngle(motor_angles[j]) # motor_targets[j]
      /\ intents[sends[i].nint].after = motor_targets

\* C10: whatever the outcome of a send_command() call (also with the port
\* never opened), the loop goes on and the step changes targets, angles and
\* fire times exactly as the adjustment and the smoothing alone determine.
C10_TransportIsolation ==
  [][/\ pc' # "crashed"
     /\ (Len(intents') = Len(intents) + 1 =>
           LET it == intents'[Len(intents')]
           IN /\ motor_targets' = ApplyAdjustment(motor_targets, it.motor_index,
                                                  it.direction, FAST_STEP_SIZE)
              /\ motor_angles' = motor_angles
              /\ it.key \in Held'
              /\ it.key \in DOMAIN last_command_time'
              /\ last_command_time'[it.key] > current_time)
     /\ (last_op'.op = "update_motor_angles" =>
           /\ motor_angles' = SmoothAll(motor_targets, motor_angles)
           /\ motor_targets' = motor_targets)]_vars

\* with the port never opened, a key was adjusted on key-down and again on a
\* repeat, and the current position has followed
C10_Witness ==
  /\ ~arduino
  /\ \E k \in DOMAIN fires :
       /\ Len(fires[k]) >= 2
       /\ motor_targets[key_mapping[k][1]] # InitTargets[key_mapping[k][1]]
       /\ motor_angles[key_mapping[k][1]] # InitAngles[key_mapping[k][1]]
  /\ \E i \in 1..Len(sends) : ~Transmitted(sends[i].outcome)

\* C11: the loop leaves the running state only on a QUIT event or a key-down
\* of the exit key; no outcome of a send (failed write, failed or undecodable
\* reply, port never opened) ends it, the shutdown is entered only after such
\* a request, and after a tick with failed sends the next tick can start.
C11_ExitOnlyOnRequest ==
  /\ [][running /\ ~running' =>
          \/ last_op'.op = "QUIT"
          \/ last_op'.op = "KEYDOWN" /\ last_op'.key = K_ESCAPE]_vars
  /\ [](pc # "crashed")
  /\ [](pc = "done" => ~running)
  /\ [](pc = "top" /\ running /\ current_time + FrameMs <= MaxTime
          => ENABLED GetTicks)

\* a tick in which one write failed and one reply could not be read has run
\* to its end, and the loop is still running
C11_Witness ==
  /\ pc = "top"
  /\ running
  /\ last_op.op = "update_motor_angles"
  /\ \E i \in 1..Len(sends) : sends[i].outcome = "WriteError"
  /\ \E i \in 1..Len(sends) : sends[i].outcome = "ReceiveError"

Converged == \A j \in Joints : motor_angles[j] = motor_targets[j] * Scale

\* C12: one update_motor_angles() strictly reduces the distance of a joint's
\* current position to its target while that distance is above 0.5 and never
\* carries it past the target; at a distance of at most 0.5 it sets the
\* position to the target exactly; a position at its target stays there; and
\* with the targets left alone the positions reach them after finitely many
\* ticks.
C12_SmoothingConverges ==
  /\ [][last_op'.op = "update_motor_angles" =>
          \A j \in Joints :
            LET before == motor_targets[j] * Scale - motor_angles[j]
                after == motor_targets[j] * Scale - motor_angles'[j]
            IN /\ (2 * Abs(before) > Scale =>
                     /\ Abs(after) < Abs(before)
                     /\ before * after >= 0)
               /\ (2 * Abs(before) <= Scale => after = 0)
               /\ (before = 0 => motor_angles'[j] = motor_angles[j])]_vars
  /\ [](Converged => SmoothAll(motor_targets, motor_angles) = motor_angles)
  /\ <>[]Converged

\* a position that was more than 0.5 away from its target, approached it from
\* above over several ticks, has now reached it exactly
C12_Witness ==
  /\ last_op.op = "update_motor_angles"
  /\ motor_targets[0] = InitTargets[0] - 2 * FAST_STEP_SIZE
  /\ Converged

\* C13: every joint's current position lies within the joint's range, in
\* every state.
C13_AnglesInRange ==
  \A j \in Joints :
    /\ motor_ranges[j][1] * Scale <= motor_angles[j]
    /\ motor_angles[j] <= motor_ranges[j][2] * Scale

\* joint 1's target is back at the minimum of its range while the current
\* position, having followed it upwards, is still on its way down
C13_Witness ==
  /\ pc = "top"
  /\ last_op.op = "update_motor_angles"
  /\ motor_targets[1] = motor_ranges[1][1]
  /\ motor_angles[1] > motor_ranges[1][1] * Scale

C15_DisjointWriters ==
  [][/\ (last_op'.op = "update_motor_angles" => motor_targets' = motor_targets)
     /\ (Len(intents') = Len(intents) + 1 =>
           LET i == intents'[Len(intents')].motor_index
           IN /\ \A j \in Joints \ {i} : motor_targets'[j] = motor_targets[j]
              /\ Abs(motor_targets'[i] - motor_targets[i]) <= FAST_STEP_SIZE
              /\ i = key_mapping[last_op'.key][1]
              /\ motor_angles' = motor_angles)
     /\ (motor_targets' # motor_targets => Len(intents') = Len(intents) + 1)
     /\ (motor_angles' # motor_angles => last_op'.op = "update_motor_angles")]_vars

\* after a key-down for joint 1 the smoothing has moved joint 1's current
\* position, which is still short of the adjusted target
C15_Witness ==
  /\ last_op.op = "update_motor_angles"
  /\ motor_targets[1] # InitTargets[1]
  /\ motor_angles[1] # InitAngles[1]
  /\ motor_angles[1] # motor_targets[1] * Scale
  /\ \A j \in Joints \ {1} : /\ motor_targets[j] = InitTargets[j]
                             /\ motor_angles[j] = InitAngles[j]

\* C16 as stated: in a tick with an intent a frame is sent and a receive is
\* attempted for every outcome of the send, a failed send included.
C16_ReceiveAfterEverySend ==
  /\ (intents # <<>> => sends # <<>>)
  /\ \A i \in 1..Len(sends) : sends[i].receive

\* C16: every intent of a tick has its send_command() call, and the receive
\* (the check for waiting bytes) is attempted exactly when the write went out:
\* after a write that raised, or with the port never opened, none is attempted.
C16_ReceiveOnlyAfterWrite ==
  /\ Len(sends) = Len(intents)
  /\ \A i \in 1..Len(sends) :
       /\ sends[i].nint = i
       /\ (sends[i].receive <=> sends[i].outcome \in {"Sent", "ReceiveError"})
       /\ (sends[i].outcome \in {"WriteError", "NameError"} => ~sends[i].receive)

\* one tick with a send whose write failed and a send that went out
C16_Witness ==
  /\ Len(sends) = 2
  /\ sends[1].outcome = "WriteError" /\ ~sends[1].receive
  /\ sends[2].outcome = "Sent" /\ sends[2].receive

\* C17: send_command() is called only by a step that applies an intent, so a
\* tick without an intent sends no frame and attempts no receive, also while
\* a current position is still moving toward its target; the shutdown after
\* the loop sends no frame either.
C17_NoIntentNoSend ==
  /\ [][Len(sends') > Len(sends) => Len(intents') = Len(intents) + 1]_vars
  /\ [](intents = <<>> => sends = <<>>)
  /\ [][last_op'.op = "shutdown" => sends' = sends]_vars

\* the loop has ended with a tick that applied no intent and the shutdown has
\* run, nothing was sent, and a current position is still short of its target
C17_Witness ==
  /\ pc = "done"
  /\ intents = <<>>
  /\ sends = <<>>
  /\ \E j \in Joints : motor_angles[j] # motor_targets[j] * Scale

\* C18: the keys of keys_pressed are the keys of last_command_time, and all
\* of them are among the twelve keys of key_mapping; every intent names a
\* joint in 0..5 and the direction increase or decrease; and every key the
\* repeat step looks up has a scheduled time, so the default 0 of
\* last_command_time.get is never used.
C18_HeldKeysAreScheduled ==
  /\ DOMAIN last_command_time = Held
  /\ Held \subseteq DOMAIN key_mapping
  /\ Cardinality(DOMAIN key_mapping) = 12
  /\ \A i \in 1..Len(intents) :
       /\ intents[i].motor_index \in 0..5
       /\ intents[i].direction \in {"increase", "decrease"}
  /\ (pc = "repeat" =>
        \A i \in idx..Len(repeat_keys) :
          repeat_keys[i] \in DOMAIN last_command_time)

\* at a tick boundary two keys are held, and in the tick just ended a repeat
\* of a held key has applied an intent
C18_Witness ==
  /\ pc = "top"
  /\ Cardinality(Held) = 2
  /\ \E i \in 1..Len(intents) : intents[i].kind = "repeat"

\* the bound of the key's joint in the key's direction
BoundOf(k) ==
  IF key_mapping[k][2] = "increase"
    THEN motor_ranges[key_mapping[k][1]][2]
    ELSE motor_ranges[key_mapping[k][1]][1]

AtBound(k) == motor_targets[key_mapping[k][1]] = BoundOf(k)

\* the latest key-down time that leaves room for the first repeat before the
\* clock of a run ends
HoldBy == MaxTime - KEY_REPEAT_DELAY - FrameMs

C20_StopCompletesTick ==
  /\ [][~running => ~running' /\ current_time' = current_time]_vars
  /\ [][last_op'.op = "get_ticks" => running]_vars
  /\ [][last_op'.op = "shutdown" =>
          /\ last_op.op = "update_motor_angles"
          /\ motor_targets' = motor_targets]_vars
  /\ [][pc = "done" => motor_targets' = motor_targets /\ pc' = "done"]_vars

\* the stop has been handled, and a key-down that came after it in the same
\* batch has still changed a target and made its send
C20_Witness ==
  /\ ~running
  /\ pc = "events"
  /\ last_op.op = "KEYDOWN"
  /\ last_op.key \in DOMAIN key_mapping
  /\ intents # <<>>
  /\ intents[Len(intents)].before # intents[Len(intents)].after
  /\ intents[Len(intents)].after = motor_targets
  /\ sends # <<>>

=============================================================================
